---- MODULE Spec2Model ----
(***************************************************************************)
(* A model of InMemoryDBImpl (src/src/in_memory_db_imp.cpp): the record    *)
(* table records_, the TTL table ttlMap_, the monotonic clock, and every   *)
(* public operation, the snapshot text written by backup() and parsed by   *)
(* restore() included.                                                     *)
(*                                                                         *)
(* Strings are sequences of one-character strings, so that the snapshot    *)
(* text is really written and really parsed: "ab" is <<"a","b">>.          *)
(* Time is counted in clock ticks; one second is TicksPerSecond ticks, so  *)
(* that a fraction of a second exists (duration_cast truncates it).        *)
(* Every operation reads the clock once: the clock does not advance inside *)
(* a call.                                                                 *)
(***************************************************************************)
EXTENDS Integers, Sequences, FiniteSets, TLC

VARIABLES
    records,    \* records_ : recordId -> (field -> value)
    ttlMap,     \* ttlMap_  : recordId -> expiration instant (ticks)
    now,        \* std::chrono::steady_clock::now(), in ticks
    lastOp,     \* the step that led here: the call, its arguments and its result
    held        \* the snapshot the caller holds: the last backup(), until its next call

vars == <<records, ttlMap, now, lastOp, held>>

----------------------------------------------------------------------------
(* Bounds of the model *)

\* The clock runs from 0 to MaxTime ticks.
MaxTime == 2
\* setTTL is called with ttlSeconds in -1 .. MaxTTL.
MaxTTL == 1
\* Clock ticks per second.
TicksPerSecond == 2

RecordIds == {<<"a">>, <<"b">>}
Fields == {<<"f">>, <<"g">>}
Values == {<<>>, <<"x">>}
\* set is called with these fields and values.
FieldValues == {<<<<"f">>, <<>> >>, <<<<"f">>, <<"x">> >>, <<<<"g">>, <<"x">> >>}
TtlSeconds == -1 .. MaxTTL

----------------------------------------------------------------------------
(* Characters and strings *)

NL == "\n"
DigitChars == <<"0", "1", "2", "3", "4", "5", "6", "7", "8", "9">>
SpaceChars == {" ", "\t", NL}

\* The characters of the model in ascending order of their code (operator< of
\* std::string compares character codes).
CharOrder == <<"\t", NL, " ", "+", "-", "0", "1", "2", "3", "4", "5", "6", "7",
               "8", "9", "a", "b", "d", "f", "g", "x">>

CharCode(c) == CHOOSE i \in 1..Len(CharOrder) : CharOrder[i] = c

\* std::string operator< : lexicographic order.
RECURSIVE StrLess(_, _)
StrLess(s, t) ==
    IF t = <<>> THEN FALSE
    ELSE IF s = <<>> THEN TRUE
    ELSE IF Head(s) # Head(t) THEN CharCode(Head(s)) < CharCode(Head(t))
    ELSE StrLess(Tail(s), Tail(t))

----------------------------------------------------------------------------
(* unordered_map *)

EmptyMap == [k \in {} |-> k]

\* m[k] = v
MapPut(m, k, v) == [x \in DOMAIN m \cup {k} |-> IF x = k THEN v ELSE m[x]]

\* m.erase(k)
MapErase(m, k) == [x \in DOMAIN m \ {k} |-> m[x]]

----------------------------------------------------------------------------
(* Results *)

\* std::nullopt
Absent == [has |-> FALSE]
\* std::optional holding v
Present(v) == [has |-> TRUE, value |-> v]
\* a void call
Void == "void"

\* What a call saw of its record when it was made.
PreOf(r) == [present |-> r \in DOMAIN records,
             hasTTL  |-> r \in DOMAIN ttlMap,
             expired |-> r \in DOMAIN ttlMap /\ now >= ttlMap[r]]
NoPre == [present |-> FALSE, hasTTL |-> FALSE, expired |-> FALSE]
\* What an expireRecords() call removed from the record table.
Purged(ids) == [present |-> FALSE, hasTTL |-> FALSE, expired |-> FALSE, purged |-> ids]

\* The caller holds no snapshot.
NoSnapshot == [has |-> FALSE]

Call(op, args, ret, pre) == [op |-> op, args |-> args, ret |-> ret, pre |-> pre]

\* The last call destroyed record r: deleteRecord(r) removed it, deleteField
\* removed its last field, or expireRecords() purged it.
Destroyed(r) ==
    \/ lastOp.op = "deleteRecord" /\ lastOp.args = <<r>> /\ lastOp.ret = TRUE
    \/ /\ lastOp.op = "deleteField"
       /\ lastOp.args[1] = r
       /\ lastOp.ret = TRUE
       /\ r \notin DOMAIN records
    \/ lastOp.op = "expireRecords" /\ r \in lastOp.pre.purged

\* What set saw of its record, and whether the call before destroyed it.
SetPre(r) == [present |-> r \in DOMAIN records,
              hasTTL  |-> r \in DOMAIN ttlMap,
              expired |-> r \in DOMAIN ttlMap /\ now >= ttlMap[r],
              destroyed |-> Destroyed(r)]

----------------------------------------------------------------------------
(* Helpers of the store *)

\* isRecordExpired with now > expiration instead of now >= expiration.
isRecordExpired_late(tt, t, r) == r \in DOMAIN tt /\ t > tt[r]

\* isRecordExpired, on TTL table tt at instant t.
isRecordExpired(tt, t, r) == r \in DOMAIN tt /\ t >= tt[r]

\* cleanupExpiredRecord erasing every id that has a TTL entry.
cleanupExpiredRecord_bulk(rs, tt, r) ==
    <<[q \in DOMAIN rs \ (DOMAIN tt \cup {r}) |-> rs[q]], EmptyMap>>

\* cleanupExpiredRecord: both tables, as <<records, ttlMap>>.
cleanupExpiredRecord(rs, tt, r) == <<MapErase(rs, r), MapErase(tt, r)>>

----------------------------------------------------------------------------
Init ==
    /\ records = EmptyMap
    /\ ttlMap = EmptyMap
    /\ now = 0
    /\ lastOp = Call("new", <<>>, Void, NoPre)
    /\ held = NoSnapshot

\* The monotonic clock advances.
Tick ==
    /\ now < MaxTime
    /\ now' = now + 1
    /\ lastOp' = Call("tick", <<>>, Void, NoPre)
    /\ UNCHANGED <<records, ttlMap, held>>

\* set without the cleanup of an expired record.
set_withoutCleanup(rs, tt, t, r, f, v) ==
    [records |-> MapPut(rs, r, MapPut(IF r \in DOMAIN rs THEN rs[r] ELSE EmptyMap, f, v)),
     ttlMap |-> tt]

\* set replacing the record's field map by the one field written.
set_singleField(rs, tt, t, r, f, v) ==
    LET c == IF isRecordExpired(tt, t, r)
             THEN cleanupExpiredRecord(rs, tt, r)
             ELSE <<rs, tt>>
    IN [records |-> MapPut(c[1], r, MapPut(EmptyMap, f, v)), ttlMap |-> c[2]]

\* set erasing the TTL entry of the record it writes to.
set_dropsTTL(rs, tt, t, r, f, v) ==
    LET c == IF isRecordExpired(tt, t, r)
             THEN cleanupExpiredRecord(rs, tt, r)
             ELSE <<rs, tt>>
        old == IF r \in DOMAIN c[1] THEN c[1][r] ELSE EmptyMap
    IN [records |-> MapPut(c[1], r, MapPut(old, f, v)), ttlMap |-> MapErase(c[2], r)]

\* The tables after set(recordId, field, value).
set(rs, tt, t, r, f, v) ==
    LET c == IF isRecordExpired(tt, t, r)
             THEN cleanupExpiredRecord(rs, tt, r)
             ELSE <<rs, tt>>
        old == IF r \in DOMAIN c[1] THEN c[1][r] ELSE EmptyMap
    IN [records |-> MapPut(c[1], r, MapPut(old, f, v)), ttlMap |-> c[2]]

Set(r, f, v) ==
    \E o \in {set(records, ttlMap, now, r, f, v)} :
       /\ records' = o.records
       /\ ttlMap' = o.ttlMap
       /\ lastOp' = Call("set", <<r, f, v>>, Void, SetPre(r))
       /\ held' = NoSnapshot
       /\ UNCHANGED now

\* get(recordId, field), on tables rs, tt at instant t.
get(rs, tt, t, r, f) ==
    IF isRecordExpired(tt, t, r) THEN Absent
    ELSE IF r \notin DOMAIN rs THEN Absent
    ELSE IF f \notin DOMAIN rs[r] THEN Absent
    ELSE Present(rs[r][f])

\* get purging the record it finds expired, as set and deleteField do.
Get_purging(r, f) ==
    \E c \in {IF isRecordExpired(ttlMap, now, r)
               THEN cleanupExpiredRecord(records, ttlMap, r)
               ELSE <<records, ttlMap>>} :
       /\ records' = c[1]
       /\ ttlMap' = c[2]
       /\ lastOp' = Call("get", <<r, f>>, get(records, ttlMap, now, r, f), PreOf(r))
       /\ held' = NoSnapshot
       /\ UNCHANGED now

Get(r, f) ==
    /\ lastOp' = Call("get", <<r, f>>, get(records, ttlMap, now, r, f), PreOf(r))
    /\ held' = NoSnapshot
    /\ UNCHANGED <<records, ttlMap, now>>

\* deleteField leaving a record with no field in the record table.
deleteField_keepsEmptyRecord(rs, tt, t, r, f) ==
    IF isRecordExpired(tt, t, r)
    THEN [records |-> MapErase(rs, r), ttlMap |-> MapErase(tt, r), ret |-> FALSE]
    ELSE IF r \notin DOMAIN rs \/ f \notin DOMAIN rs[r]
    THEN [records |-> rs, ttlMap |-> tt, ret |-> FALSE]
    ELSE [records |-> MapPut(rs, r, MapErase(rs[r], f)), ttlMap |-> tt, ret |-> TRUE]

\* deleteField removing the emptied record and leaving its TTL entry.
deleteField_keepsTTL(rs, tt, t, r, f) ==
    IF isRecordExpired(tt, t, r)
    THEN [records |-> MapErase(rs, r), ttlMap |-> MapErase(tt, r), ret |-> FALSE]
    ELSE IF r \notin DOMAIN rs \/ f \notin DOMAIN rs[r]
    THEN [records |-> rs, ttlMap |-> tt, ret |-> FALSE]
    ELSE IF DOMAIN rs[r] = {f}
    THEN [records |-> MapErase(rs, r), ttlMap |-> tt, ret |-> TRUE]
    ELSE [records |-> MapPut(rs, r, MapErase(rs[r], f)), ttlMap |-> tt, ret |-> TRUE]

\* deleteField reporting failure on an expired record without the cleanup.
deleteField_expiredUntouched(rs, tt, t, r, f) ==
    IF isRecordExpired(tt, t, r) \/ r \notin DOMAIN rs \/ f \notin DOMAIN rs[r]
    THEN [records |-> rs, ttlMap |-> tt, ret |-> FALSE]
    ELSE IF DOMAIN rs[r] = {f}
    THEN [records |-> MapErase(rs, r), ttlMap |-> MapErase(tt, r), ret |-> TRUE]
    ELSE [records |-> MapPut(rs, r, MapErase(rs[r], f)), ttlMap |-> tt, ret |-> TRUE]

\* deleteField erasing the TTL entry with every field it removes.
deleteField_dropsTTL(rs, tt, t, r, f) ==
    IF isRecordExpired(tt, t, r)
    THEN [records |-> MapErase(rs, r), ttlMap |-> MapErase(tt, r), ret |-> FALSE]
    ELSE IF r \notin DOMAIN rs \/ f \notin DOMAIN rs[r]
    THEN [records |-> rs, ttlMap |-> tt, ret |-> FALSE]
    ELSE IF DOMAIN rs[r] = {f}
    THEN [records |-> MapErase(rs, r), ttlMap |-> MapErase(tt, r), ret |-> TRUE]
    ELSE [records |-> MapPut(rs, r, MapErase(rs[r], f)),
          ttlMap |-> MapErase(tt, r), ret |-> TRUE]

\* The outcome of deleteField(recordId, field): the tables and the result.
deleteField(rs, tt, t, r, f) ==
    IF isRecordExpired(tt, t, r)
    THEN LET c == cleanupExpiredRecord(rs, tt, r)
         IN [records |-> c[1], ttlMap |-> c[2], ret |-> FALSE]
    ELSE IF r \notin DOMAIN rs THEN [records |-> rs, ttlMap |-> tt, ret |-> FALSE]
    ELSE IF f \notin DOMAIN rs[r] THEN [records |-> rs, ttlMap |-> tt, ret |-> FALSE]
    ELSE LET left == MapErase(rs[r], f)
         IN IF DOMAIN left = {}
            THEN [records |-> MapErase(rs, r), ttlMap |-> MapErase(tt, r), ret |-> TRUE]
            ELSE [records |-> MapPut(rs, r, left), ttlMap |-> tt, ret |-> TRUE]

DeleteField(r, f) ==
    \E o \in {deleteField(records, ttlMap, now, r, f)} :
       /\ records' = o.records
       /\ ttlMap' = o.ttlMap
       /\ lastOp' = Call("deleteField", <<r, f>>, o.ret, PreOf(r))
       /\ held' = NoSnapshot
       /\ UNCHANGED now

\* deleteRecord without ttlMap_.erase(recordId).
deleteRecord_keepsTTL(rs, tt, r) ==
    IF r \notin DOMAIN rs THEN [records |-> rs, ttlMap |-> tt, ret |-> FALSE]
    ELSE [records |-> MapErase(rs, r), ttlMap |-> tt, ret |-> TRUE]

\* The outcome of deleteRecord(recordId).
deleteRecord(rs, tt, r) ==
    IF r \notin DOMAIN rs THEN [records |-> rs, ttlMap |-> tt, ret |-> FALSE]
    ELSE [records |-> MapErase(rs, r), ttlMap |-> MapErase(tt, r), ret |-> TRUE]

DeleteRecord(r) ==
    \E o \in {deleteRecord(records, ttlMap, r)} :
       /\ records' = o.records
       /\ ttlMap' = o.ttlMap
       /\ lastOp' = Call("deleteRecord", <<r>>, o.ret, PreOf(r))
       /\ held' = NoSnapshot
       /\ UNCHANGED now

\* The strings of S from the greatest to the least.
RECURSIVE SortStrs_descending(_)
SortStrs_descending(S) ==
    IF S = {} THEN <<>>
    ELSE LET m == CHOOSE x \in S : \A y \in S \ {x} : StrLess(y, x)
         IN <<m>> \o SortStrs_descending(S \ {m})

\* std::sort of a vector holding the strings of S, each once.
RECURSIVE SortStrs(_)
SortStrs(S) ==
    IF S = {} THEN <<>>
    ELSE LET m == CHOOSE x \in S : \A y \in S \ {x} : StrLess(x, y)
         IN <<m>> \o SortStrs(S \ {m})

\* getFields(recordId)
getFields(rs, tt, t, r) ==
    IF isRecordExpired(tt, t, r) THEN <<>>
    ELSE IF r \notin DOMAIN rs THEN <<>>
    ELSE SortStrs(DOMAIN rs[r])

GetFields(r) ==
    /\ lastOp' = Call("getFields", <<r>>, getFields(records, ttlMap, now, r), PreOf(r))
    /\ held' = NoSnapshot
    /\ UNCHANGED <<records, ttlMap, now>>

\* hasRecord(recordId)
hasRecord(rs, tt, t, r) ==
    IF isRecordExpired(tt, t, r) THEN FALSE ELSE r \in DOMAIN rs

\* hasRecord purging the record it finds expired.
HasRecord_purging(r) ==
    \E c \in {IF isRecordExpired(ttlMap, now, r)
               THEN cleanupExpiredRecord(records, ttlMap, r)
               ELSE <<records, ttlMap>>} :
       /\ records' = c[1]
       /\ ttlMap' = c[2]
       /\ lastOp' = Call("hasRecord", <<r>>, hasRecord(records, ttlMap, now, r), PreOf(r))
       /\ held' = NoSnapshot
       /\ UNCHANGED now

HasRecord(r) ==
    /\ lastOp' = Call("hasRecord", <<r>>, hasRecord(records, ttlMap, now, r), PreOf(r))
    /\ held' = NoSnapshot
    /\ UNCHANGED <<records, ttlMap, now>>

\* getAllRecordIds()
getAllRecordIds(rs, tt, t) ==
    SortStrs({r \in DOMAIN rs : ~isRecordExpired(tt, t, r)})

GetAllRecordIds ==
    /\ lastOp' = Call("getAllRecordIds", <<>>, getAllRecordIds(records, ttlMap, now), NoPre)
    /\ held' = NoSnapshot
    /\ UNCHANGED <<records, ttlMap, now>>

\* getRecordsByFieldValue comparing the value with every field of the record.
getRecordsByFieldValue_anyField(rs, tt, t, f, v) ==
    SortStrs({r \in DOMAIN rs :
                /\ ~isRecordExpired(tt, t, r)
                /\ \E g \in DOMAIN rs[r] : rs[r][g] = v})

\* getRecordsByFieldValue(field, value)
getRecordsByFieldValue(rs, tt, t, f, v) ==
    SortStrs({r \in DOMAIN rs :
                /\ ~isRecordExpired(tt, t, r)
                /\ f \in DOMAIN rs[r]
                /\ rs[r][f] = v})

GetRecordsByFieldValue(f, v) ==
    /\ lastOp' = Call("getRecordsByFieldValue", <<f, v>>,
                      getRecordsByFieldValue(records, ttlMap, now, f, v), NoPre)
    /\ held' = NoSnapshot
    /\ UNCHANGED <<records, ttlMap, now>>

\* setTTL ignoring a ttlSeconds that is zero or negative.
setTTL_positiveOnly(rs, tt, t, r, n) ==
    IF r \notin DOMAIN rs \/ n <= 0 THEN tt
    ELSE MapPut(tt, r, t + n * TicksPerSecond)

\* setTTL adding ttlSeconds to the expiration instant the record already has.
setTTL_cumulative(rs, tt, t, r, n) ==
    IF r \notin DOMAIN rs THEN tt
    ELSE MapPut(tt, r, (IF r \in DOMAIN tt THEN tt[r] ELSE t) + n * TicksPerSecond)

\* The TTL table after setTTL(recordId, ttlSeconds).
setTTL(rs, tt, t, r, n) ==
    IF r \notin DOMAIN rs THEN tt
    ELSE MapPut(tt, r, t + n * TicksPerSecond)

SetTTL(r, n) ==
    /\ ttlMap' = setTTL(records, ttlMap, now, r, n)
    /\ lastOp' = Call("setTTL", <<r, n>>, Void, PreOf(r))
    /\ held' = NoSnapshot
    /\ UNCHANGED <<records, now>>

\* expireRecords purging every id that has a TTL entry, passed or not.
expireRecords_everyTTL(rs, tt, t) ==
    [records |-> [r \in DOMAIN rs \ DOMAIN tt |-> rs[r]],
     ttlMap  |-> EmptyMap,
     ret     |-> Cardinality(DOMAIN tt)]

\* expireRecords erasing the expired records and leaving their TTL entries.
expireRecords_keepsTTL(rs, tt, t) ==
    LET expiredRecords == {r \in DOMAIN tt : t >= tt[r]}
    IN [records |-> [r \in DOMAIN rs \ expiredRecords |-> rs[r]],
        ttlMap  |-> tt,
        ret     |-> Cardinality(expiredRecords)]

\* The outcome of expireRecords().
expireRecords(rs, tt, t) ==
    LET expiredRecords == {r \in DOMAIN tt : t >= tt[r]}
    IN [records |-> [r \in DOMAIN rs \ expiredRecords |-> rs[r]],
        ttlMap  |-> [r \in DOMAIN tt \ expiredRecords |-> tt[r]],
        ret     |-> Cardinality(expiredRecords)]

ExpireRecords ==
    \E o \in {expireRecords(records, ttlMap, now)} :
       /\ records' = o.records
       /\ ttlMap' = o.ttlMap
       /\ lastOp' = Call("expireRecords", <<>>, o.ret, Purged(DOMAIN records \ DOMAIN o.records))
       /\ held' = NoSnapshot
       /\ UNCHANGED now

----------------------------------------------------------------------------
(* Numbers and lines of the snapshot text *)

\* Integer division truncating toward zero (duration_cast<seconds>).
TruncDiv(a, b) == IF a >= 0 THEN a \div b ELSE -((-a) \div b)

RECURSIVE NatToStr(_)
NatToStr(n) ==
    IF n < 10 THEN <<DigitChars[n + 1]>>
    ELSE NatToStr(n \div 10) \o <<DigitChars[(n % 10) + 1]>>

\* operator<< of an integer: its decimal digits, "-" first when negative.
IntToStr(n) == IF n < 0 THEN <<"-">> \o NatToStr(-n) ELSE NatToStr(n)

IsDigit(c) == \E i \in 1..10 : DigitChars[i] = c
DigitVal(c) == (CHOOSE i \in 1..10 : DigitChars[i] = c) - 1

RECURSIVE SkipSpace(_)
SkipSpace(s) ==
    IF s # <<>> /\ Head(s) \in SpaceChars THEN SkipSpace(Tail(s)) ELSE s

\* The digits s starts with.
RECURSIVE LeadingDigits(_)
LeadingDigits(s) ==
    IF s # <<>> /\ IsDigit(Head(s)) THEN <<Head(s)>> \o LeadingDigits(Tail(s)) ELSE <<>>

RECURSIVE DigitsValue(_, _)
DigitsValue(ds, acc) ==
    IF ds = <<>> THEN acc ELSE DigitsValue(Tail(ds), acc * 10 + DigitVal(Head(ds)))

\* The largest int.
IntMax == 2147483647

\* std::stoi(line): leading white space is skipped, then an optional sign and the
\* digits that follow are converted and whatever comes after them is ignored;
\* no digit there throws std::invalid_argument, a value no int holds throws
\* std::out_of_range.
Thrown == [throws |-> TRUE, value |-> 0]

stoiValue(v) ==
    IF v > IntMax \/ v < -IntMax - 1 THEN Thrown ELSE [throws |-> FALSE, value |-> v]

stoiDigits(ds, sign) ==
    IF ds = <<>> THEN Thrown ELSE stoiValue(sign * DigitsValue(ds, 0))

stoiSigned(s) ==
    IF s # <<>> /\ Head(s) = "-" THEN stoiDigits(LeadingDigits(Tail(s)), -1)
    ELSE IF s # <<>> /\ Head(s) = "+" THEN stoiDigits(LeadingDigits(Tail(s)), 1)
    ELSE stoiDigits(LeadingDigits(s), 1)

stoi(line) == stoiSigned(SkipSpace(line))

\* s << "\n"
Line(s) == s \o <<NL>>

\* The characters of text before its first "\n" (all of it when it has none).
RECURSIVE UpToNL(_)
UpToNL(text) ==
    IF text = <<>> \/ Head(text) = NL THEN <<>>
    ELSE <<Head(text)>> \o UpToNL(Tail(text))

\* The lines successive std::getline calls read from text, until one fails: a
\* call fails when no character is left, and reads up to the next "\n" or to
\* the end of the text otherwise.
RECURSIVE getlines(_)
getlines(text) ==
    IF text = <<>> THEN <<>>
    ELSE LET l == UpToNL(text)
             rest == IF Len(l) < Len(text)
                     THEN SubSeq(text, Len(l) + 2, Len(text))
                     ELSE <<>>
         IN <<l>> \o getlines(rest)

\* The concatenation of a sequence of strings.
RECURSIVE Concat(_)
Concat(ss) == IF ss = <<>> THEN <<>> ELSE Head(ss) \o Concat(Tail(ss))

----------------------------------------------------------------------------
(* backup *)

\* The TTL section's entries: the ids of validRecordIds, in order, whose TTL
\* has more than zero whole seconds left.
validTTLs(tt, t, validRecordIds) ==
    SelectSeq(validRecordIds,
              LAMBDA r : r \in DOMAIN tt /\ TruncDiv(tt[r] - t, TicksPerSecond) > 0)

\* The text backup() writes, when records_ is iterated in the order
\* validRecordIds (the non-expired ones) and record r's fields in the order
\* fieldOrder[r].
backup(rs, tt, t, validRecordIds, fieldOrder) ==
    LET recordText(r) ==
            Line(r) \o Line(IntToStr(Cardinality(DOMAIN rs[r])))
            \o Concat([j \in 1..Len(fieldOrder[r]) |->
                         Line(fieldOrder[r][j]) \o Line(rs[r][fieldOrder[r][j]])])
        ttls == validTTLs(tt, t, validRecordIds)
        ttlText(r) == Line(r) \o Line(IntToStr(TruncDiv(tt[r] - t, TicksPerSecond)))
    IN Line(IntToStr(Len(validRecordIds)))
       \o Concat([k \in 1..Len(validRecordIds) |-> recordText(validRecordIds[k])])
       \o Line(IntToStr(Len(ttls)))
       \o Concat([k \in 1..Len(ttls) |-> ttlText(ttls[k])])

\* validRecordIds holding every record of records_, expired or not.
validRecords_all(rs, tt, t) == DOMAIN rs

\* The non-expired records of records_.
validRecords(rs, tt, t) == {r \in DOMAIN rs : ~isRecordExpired(tt, t, r)}

\* The strings of S in ascending order, or in descending order.
Listed(S, descending) ==
    LET up == SortStrs(S)
    IN IF descending THEN [k \in 1..Len(up) |-> up[Len(up) + 1 - k]] ELSE up

\* The texts backup() can return. The iteration order of an unordered_map is
\* unspecified: the model takes the ascending and the descending order, of
\* the records and of the fields of each.
backups(rs, tt, t) ==
    LET valid == validRecords(rs, tt, t)
    IN {backup(rs, tt, t, Listed(valid, d), [r \in valid |-> Listed(DOMAIN rs[r], d)]) :
          d \in BOOLEAN}

Backup ==
    \E text \in backups(records, ttlMap, now) :
        /\ lastOp' = Call("backup", <<>>, text, NoPre)
        /\ held' = [has |-> TRUE, text |-> text, at |-> now]
        /\ UNCHANGED <<records, ttlMap, now>>

----------------------------------------------------------------------------
(* restore *)

\* records_[recordId][value] = field
putField_swapped(rs, r, f, v) ==
    MapPut(rs, r, MapPut(IF r \in DOMAIN rs THEN rs[r] ELSE EmptyMap, v, f))

\* records_[recordId][field] = value
putField(rs, r, f, v) ==
    MapPut(rs, r, MapPut(IF r \in DOMAIN rs THEN rs[r] ELSE EmptyMap, f, v))

\* The state of the parse: st is "ok", "eof" (a getline failed: return false)
\* or "throw" (std::stoi threw); i is the next line to read; nums lists the
\* lines read as numbers.
Parse(st, i, rs, tt, nums) ==
    [st |-> st, i |-> i, records |-> rs, ttlMap |-> tt, nums |-> nums]

\* The loop over the fields of one record: n field and value lines from line i.
RECURSIVE readFields(_, _, _, _, _)
readFields(lines, p, n, r, j) ==
    IF j >= n THEN p
    ELSE IF p.i > Len(lines) THEN [p EXCEPT !.st = "eof"]
    ELSE IF p.i + 1 > Len(lines) THEN [p EXCEPT !.st = "eof"]
    ELSE readFields(lines,
                    [p EXCEPT !.i = p.i + 2,
                              !.records = putField(p.records, r, lines[p.i], lines[p.i + 1])],
                    n, r, j + 1)

\* A number has been read from line i: the parse goes on after it.
numberRead(p, i) == [p EXCEPT !.i = i + 1, !.nums = Append(p.nums, i)]

\* The loop over the records: recordCount records, the k-th from line p.i.
RECURSIVE readRecords(_, _, _, _)
nextRecord(lines, p, recordCount, k) ==
    IF p.st # "ok" THEN p ELSE readRecords(lines, p, recordCount, k + 1)

recordFields(lines, p, fieldCount, recordCount, k) ==
    IF fieldCount.throws THEN [numberRead(p, p.i + 1) EXCEPT !.st = "throw"]
    ELSE nextRecord(lines,
                    readFields(lines, numberRead(p, p.i + 1), fieldCount.value,
                               lines[p.i], 0),
                    recordCount, k)

readRecords(lines, p, recordCount, k) ==
    IF k >= recordCount THEN p
    ELSE IF p.i > Len(lines) THEN [p EXCEPT !.st = "eof"]
    ELSE IF p.i + 1 > Len(lines) THEN [p EXCEPT !.st = "eof"]
    ELSE recordFields(lines, p, stoi(lines[p.i + 1]), recordCount, k)

\* The loop over the TTLs: ttlCount entries, the k-th from line p.i, anchored
\* at instant t.
RECURSIVE readTTLs(_, _, _, _, _)
\* The TTL entry set to the remaining seconds alone, not added to the instant
\* of the restore.
ttlEntry_notAnchored(lines, p, ttlSeconds, ttlCount, k, t) ==
    IF ttlSeconds.throws THEN [numberRead(p, p.i + 1) EXCEPT !.st = "throw"]
    ELSE readTTLs(lines,
                  [numberRead(p, p.i + 1) EXCEPT
                      !.ttlMap = MapPut(p.ttlMap, lines[p.i],
                                        ttlSeconds.value * TicksPerSecond)],
                  ttlCount, k + 1, t)

ttlEntry(lines, p, ttlSeconds, ttlCount, k, t) ==
    IF ttlSeconds.throws THEN [numberRead(p, p.i + 1) EXCEPT !.st = "throw"]
    ELSE readTTLs(lines,
                  [numberRead(p, p.i + 1) EXCEPT
                      !.ttlMap = MapPut(p.ttlMap, lines[p.i],
                                        t + ttlSeconds.value * TicksPerSecond)],
                  ttlCount, k + 1, t)

readTTLs(lines, p, ttlCount, k, t) ==
    IF k >= ttlCount THEN p
    ELSE IF p.i > Len(lines) THEN [p EXCEPT !.st = "eof"]
    ELSE IF p.i + 1 > Len(lines) THEN [p EXCEPT !.st = "eof"]
    ELSE ttlEntry(lines, p, stoi(lines[p.i + 1]), ttlCount, k, t)

\* The TTL count has been converted.
ttlSection(lines, p, ttlCount, t) ==
    IF ttlCount.throws THEN [numberRead(p, p.i) EXCEPT !.st = "throw"]
    ELSE readTTLs(lines, numberRead(p, p.i), ttlCount.value, 0, t)

\* The records have been read: the TTL count is next.
afterRecords(lines, p, t) ==
    IF p.st # "ok" THEN p
    ELSE IF p.i > Len(lines) THEN [p EXCEPT !.st = "eof"]
    ELSE ttlSection(lines, p, stoi(lines[p.i]), t)

\* The record count has been converted.
recordSection(lines, recordCount, t) ==
    IF recordCount.throws THEN Parse("throw", 2, EmptyMap, EmptyMap, <<1>>)
    ELSE afterRecords(lines,
                      readRecords(lines, Parse("ok", 2, EmptyMap, EmptyMap, <<1>>),
                                  recordCount.value, 0),
                      t)

\* The body of restore's try block, on the lines of the text, at instant t.
parse(lines, t) ==
    IF Len(lines) < 1 THEN Parse("eof", 1, EmptyMap, EmptyMap, <<>>)
    ELSE recordSection(lines, stoi(lines[1]), t)

\* What restore leaves and returns when its parse ended as p: a failed getline
\* returns false with what was parsed so far; a thrown exception is caught, both
\* tables are cleared and false is returned.
restoreOutcome(p) ==
    CASE p.st = "ok" -> [records |-> p.records, ttlMap |-> p.ttlMap, ret |-> TRUE]
      [] p.st = "eof" -> [records |-> p.records, ttlMap |-> p.ttlMap, ret |-> FALSE]
      [] p.st = "throw" -> [records |-> EmptyMap, ttlMap |-> EmptyMap, ret |-> FALSE]

\* restore without records_.clear() and ttlMap_.clear(): what is parsed is
\* written over the tables as they are.
restore_withoutClear(backupData, t) ==
    LET o == restoreOutcome(parse(getlines(backupData), t))
    IN [records |-> [r \in DOMAIN records \cup DOMAIN o.records |->
                        IF r \in DOMAIN o.records THEN o.records[r] ELSE records[r]],
        ttlMap  |-> [r \in DOMAIN ttlMap \cup DOMAIN o.ttlMap |->
                        IF r \in DOMAIN o.ttlMap THEN o.ttlMap[r] ELSE ttlMap[r]],
        ret     |-> o.ret]

\* The outcome of restore(backupData) at instant t.
restore(backupData, t) == restoreOutcome(parse(getlines(backupData), t))

\* restore(text); from says where the caller's text comes from.
Restore(text, from) ==
    \E o \in {restore(text, now)} :
       /\ records' = o.records
       /\ ttlMap' = o.ttlMap
       /\ lastOp' = Call("restore", <<text>>, o.ret, from)
       /\ held' = NoSnapshot
       /\ UNCHANGED now

\* Where a text handed to restore comes from, and the ids the record table
\* held at the call.
From(src) == [src |-> src, takenAt |-> IF held.has THEN held.at ELSE now,
              had |-> DOMAIN records]

\* The text of the first k lines.
firstLines(lines, k) == Concat([j \in 1..k |-> Line(lines[j])])

\* The text of lines with line i replaced by l.
withLine(lines, i, l) == Concat([j \in 1..Len(lines) |-> Line(IF j = i THEN l ELSE lines[j])])

\* The lines of a text that restore reads as numbers: the record count, the
\* field counts, the TTL count and the remaining seconds.
numberLines(text) == parse(getlines(text), 0).nums

\* restore(backup()): the caller hands back the snapshot it holds.
RestoreHeld ==
    /\ held.has
    /\ Restore(held.text, From("backup"))

\* The caller hands back, at once, the snapshot it holds with its last lines
\* missing.
RestoreTruncated ==
    /\ held.has
    /\ held.at = now
    /\ \E k \in 0..(Len(getlines(held.text)) - 1) :
          Restore(firstLines(getlines(held.text), k), From("truncated"))

\* The caller hands back, at once, the snapshot it holds with one of its
\* numbers not a decimal integer: replaced by a letter, or with a letter after its digits.
RestoreDamaged ==
    /\ held.has
    /\ held.at = now
    /\ LET lines == getlines(held.text)
           nums == numberLines(held.text)
       IN \E n \in 1..Len(nums) :
             \E l \in {<<"x">>, lines[nums[n]] \o <<"x">>} :
                Restore(withLine(lines, nums[n], l), From("damaged"))

\* Texts written by hand.
NotASnapshot == <<"b", "a", "d">>
\* no record, and a TTL of 1 s for "a"
OrphanTTLText == Line(<<"0">>) \o Line(<<"1">>) \o Line(<<"a">>) \o Line(<<"1">>)
\* record "a" declared with 0 fields, no TTL
ZeroFieldsText == Line(<<"1">>) \o Line(<<"a">>) \o Line(<<"0">>) \o Line(<<"0">>)
\* record "b" with g = x and 1 s left
OneRecordText ==
    Line(<<"1">>) \o Line(<<"b">>) \o Line(<<"1">>) \o Line(<<"g">>) \o Line(<<"x">>)
    \o Line(<<"1">>) \o Line(<<"b">>) \o Line(<<"1">>)

SampleTexts == {NotASnapshot, OrphanTTLText, ZeroFieldsText, OneRecordText}

\* The caller hands restore a text written by hand.
RestoreSample ==
    \E text \in SampleTexts : Restore(text, From("sample"))

\* The calls that can change the store, the clock, and backup().
Next ==
    \/ Tick
    \/ \E r \in RecordIds, fv \in FieldValues : Set(r, fv[1], fv[2])
    \/ \E r \in RecordIds, f \in Fields : DeleteField(r, f)
    \/ \E r \in RecordIds : DeleteRecord(r)
    \/ \E r \in RecordIds, n \in TtlSeconds : SetTTL(r, n)
    \/ ExpireRecords
    \/ Backup
    \/ RestoreHeld
    \/ RestoreTruncated
    \/ RestoreDamaged
    \/ RestoreSample

Spec == Init /\ [][Next]_vars

\* The same with the read calls as steps of their own.
Reads ==
    \/ \E r \in RecordIds, f \in Fields : Get(r, f)
    \/ \E r \in RecordIds : GetFields(r)
    \/ \E r \in RecordIds : HasRecord(r)
    \/ GetAllRecordIds
    \/ \E f \in Fields, v \in Values : GetRecordsByFieldValue(f, v)

NextReads == Next \/ Reads

SpecReads == Init /\ [][NextReads]_vars
----------------------------------------------------------------------------
(* The claims *)

\* s holds x.
InSeq(x, s) == \E k \in 1..Len(s) : s[k] = x

\* The record ids and the field names in either table, before or after a step.
IdsNow == RecordIds \cup DOMAIN records \cup DOMAIN ttlMap
FieldsNow == Fields \cup UNION {DOMAIN records[r] : r \in DOMAIN records}

\* C1. Expiry consistency: a record with a TTL entry whose expiration instant is
\* at or before the current time is absent to every read: get returns absent for
\* every field, hasRecord false, getFields the empty sequence, and neither
\* getAllRecordIds nor getRecordsByFieldValue lists it, purged or not.
C1_ExpiryConsistency ==
    \A r \in DOMAIN ttlMap :
        ttlMap[r] <= now =>
            /\ \A f \in FieldsNow : get(records, ttlMap, now, r, f) = Absent
            /\ hasRecord(records, ttlMap, now, r) = FALSE
            /\ getFields(records, ttlMap, now, r) = <<>>
            /\ ~InSeq(r, getAllRecordIds(records, ttlMap, now))
            /\ \A f \in FieldsNow, v \in Values :
                  ~InSeq(r, getRecordsByFieldValue(records, ttlMap, now, f, v))

\* A record is expired and not purged, next to one that is purged or absent.
C1_Witness ==
    /\ \E r \in DOMAIN records : r \in DOMAIN ttlMap /\ ttlMap[r] <= now
    /\ \E r \in DOMAIN records : r \notin DOMAIN ttlMap

\* C2. Round trip: restore(backup()), with no record expiring between the two
\* calls, returns true and leaves a store in which get, getFields and hasRecord,
\* for every record and field, and getAllRecordIds return what they returned
\* when the backup was taken.
C2_RoundTrip ==
    [][(/\ lastOp'.op = "restore"
        /\ lastOp'.pre.src = "backup"
        /\ \A r \in DOMAIN ttlMap :
              isRecordExpired(ttlMap, held.at, r) = isRecordExpired(ttlMap, now, r))
       => /\ lastOp'.ret = TRUE
          /\ \A r \in IdsNow \cup DOMAIN records' :
                /\ hasRecord(records', ttlMap', now', r)
                      = hasRecord(records, ttlMap, held.at, r)
                /\ getFields(records', ttlMap', now', r)
                      = getFields(records, ttlMap, held.at, r)
                /\ \A f \in FieldsNow :
                      get(records', ttlMap', now', r, f)
                         = get(records, ttlMap, held.at, r, f)
          /\ getAllRecordIds(records', ttlMap', now')
                = getAllRecordIds(records, ttlMap, held.at)]_vars

\* A snapshot of two records, one with a TTL and one with an empty value, was
\* restored after the clock had advanced.
C2_Witness ==
    /\ lastOp.op = "restore"
    /\ lastOp.pre.src = "backup"
    /\ lastOp.pre.takenAt < now
    /\ lastOp.ret = TRUE
    /\ Cardinality(DOMAIN records) = 2
    /\ DOMAIN ttlMap # {}
    /\ \E r \in DOMAIN records : \E f \in DOMAIN records[r] : records[r][f] = <<>>

\* C3. Restore is all-or-nothing: whenever restore returns false, the record
\* table and the TTL table are empty afterwards.
C3_RestoreAllOrNothing ==
    (lastOp.op = "restore" /\ lastOp.ret = FALSE)
        => (records = EmptyMap /\ ttlMap = EmptyMap)

\* C4. restore returns false for every structurally inconsistent snapshot: one
\* with fewer lines than its counts declare, or one with a count or a
\* remaining-seconds line that is not a decimal integer.
C4_RestoreRejectsInconsistent ==
    (lastOp.op = "restore" /\ lastOp.pre.src \in {"truncated", "damaged"})
        => lastOp.ret = FALSE

\* C5. setTTL(r, n) leaves both tables unchanged when r does not exist, where a
\* record that is expired and not purged counts as not existing.
C5_SetTTLOnAbsentIsNoOp ==
    [][(lastOp'.op = "setTTL" /\ ~hasRecord(records, ttlMap, now, lastOp'.args[1]))
       => (records' = records /\ ttlMap' = ttlMap)]_vars

\* C6. Every record id with an entry in the TTL table has an entry in the record
\* table.
C6_TTLOnlyForRecords == DOMAIN ttlMap \subseteq DOMAIN records

\* C7. No entry of the record table has an empty field map, after deleteField of
\* a last field and after restore of a snapshot declaring a record with field
\* count 0 (which restore accepts without creating the record) included.
C7_NoEmptyRecord ==
    /\ \A r \in DOMAIN records : DOMAIN records[r] # {}
    /\ (lastOp.op = "restore" /\ lastOp.args = <<ZeroFieldsText>>)
          => (lastOp.ret = TRUE /\ records = EmptyMap)

\* deleteField has just removed the last field of a record.
C7_Witness ==
    /\ lastOp.op = "deleteField"
    /\ lastOp.ret = TRUE
    /\ lastOp.pre.present
    /\ lastOp.args[1] \notin DOMAIN records

\* C8. deleteField(r, f) on a non-expired record whose only field is f returns
\* true and removes the record entry and the TTL entry of r in the same call.
C8_DeleteLastField ==
    [][\A r \in RecordIds, f \in Fields :
          (/\ lastOp'.op = "deleteField"
           /\ lastOp'.args = <<r, f>>
           /\ ~isRecordExpired(ttlMap, now, r)
           /\ r \in DOMAIN records
           /\ DOMAIN records[r] = {f})
          => /\ lastOp'.ret = TRUE
             /\ r \notin DOMAIN records'
             /\ r \notin DOMAIN ttlMap'
             /\ hasRecord(records', ttlMap', now', r) = FALSE]_vars

\* deleteField has just removed the last field of a non-expired record that had
\* a TTL entry.
C8_Witness ==
    /\ lastOp.op = "deleteField"
    /\ lastOp.ret = TRUE
    /\ lastOp.pre.hasTTL
    /\ ~lastOp.pre.expired
    /\ lastOp.args[1] \notin DOMAIN records

\* C9. set(r, f, v) on a record that is expired and not purged leaves r with
\* exactly the one field f = v, none of its previous fields and no TTL entry, so
\* that hasRecord(r) is true.
C9_SetOnExpired ==
    [][\A r \in RecordIds :
          (/\ lastOp'.op = "set"
           /\ lastOp'.args[1] = r
           /\ r \in DOMAIN records
           /\ isRecordExpired(ttlMap, now, r))
          => /\ r \in DOMAIN records'
             /\ DOMAIN records'[r] = {lastOp'.args[2]}
             /\ records'[r][lastOp'.args[2]] = lastOp'.args[3]
             /\ r \notin DOMAIN ttlMap'
             /\ hasRecord(records', ttlMap', now', r) = TRUE]_vars

\* set has just written field "g" of a record that was expired and not purged,
\* and "g" is now its only field.
C9_Witness ==
    /\ lastOp.op = "set"
    /\ lastOp.pre.present
    /\ lastOp.pre.expired
    /\ lastOp.args[2] = <<"g">>
    /\ DOMAIN records[lastOp.args[1]] = {<<"g">>}

\* C10. deleteRecord(r) removes the record entry and the TTL entry of r and
\* returns true whenever the record table has an entry for r, expired or not; it
\* returns false only when the record table has no entry for r.
C10_DeleteRecord ==
    [][\A r \in RecordIds :
          (lastOp'.op = "deleteRecord" /\ lastOp'.args = <<r>>)
          => IF r \in DOMAIN records
             THEN /\ lastOp'.ret = TRUE
                  /\ r \notin DOMAIN records'
                  /\ r \notin DOMAIN ttlMap'
             ELSE lastOp'.ret = FALSE]_vars

\* deleteRecord has just removed a record that was expired and not purged.
C10_Witness ==
    /\ lastOp.op = "deleteRecord"
    /\ lastOp.ret = TRUE
    /\ lastOp.pre.present
    /\ lastOp.pre.expired

\* The tables without the entries of record r.
Without(m, r) == [k \in DOMAIN m \ {r} |-> m[k]]

\* C11. deleteField(r, f) on a record that is logically expired removes the
\* record entry and the TTL entry of r, leaves every other record alone and
\* returns false, whether or not f was one of its fields.
C11_DeleteFieldOnExpired ==
    [][\A r \in RecordIds, f \in Fields :
          (/\ lastOp'.op = "deleteField"
           /\ lastOp'.args = <<r, f>>
           /\ isRecordExpired(ttlMap, now, r))
          => /\ lastOp'.ret = FALSE
             /\ records' = Without(records, r)
             /\ ttlMap' = Without(ttlMap, r)]_vars

\* deleteField has just been called with field "g" on a record that was expired
\* and not purged, while another record stays in the table.
C11_Witness ==
    /\ lastOp.op = "deleteField"
    /\ lastOp.args[2] = <<"g">>
    /\ lastOp.ret = FALSE
    /\ lastOp.pre.present
    /\ lastOp.pre.expired
    /\ lastOp.args[1] \notin DOMAIN records
    /\ DOMAIN records # {}

\* C12. Idempotence of deletion: deleteRecord(r) when the record table has no
\* entry for r, and deleteField(r, f) when r has no entry or r is a non-expired
\* record without field f, return false and leave both tables unchanged.
C12_DeleteOfMissingIsNoOp ==
    [][\A r \in RecordIds :
          /\ (/\ lastOp'.op = "deleteRecord"
              /\ lastOp'.args = <<r>>
              /\ r \notin DOMAIN records)
             => (lastOp'.ret = FALSE /\ records' = records /\ ttlMap' = ttlMap)
          /\ \A f \in Fields :
                (/\ lastOp'.op = "deleteField"
                 /\ lastOp'.args = <<r, f>>
                 /\ \/ r \notin DOMAIN records
                    \/ (~isRecordExpired(ttlMap, now, r) /\ f \notin DOMAIN records[r]))
                => (lastOp'.ret = FALSE /\ records' = records /\ ttlMap' = ttlMap)]_vars

\* The elements of sequence s.
Range(s) == {s[k] : k \in 1..Len(s)}

\* C13. Filter exactness: for every field f and value v, the ids returned by
\* getRecordsByFieldValue(f, v) are exactly the records that are not expired and
\* have field f with value v, each listed once; records lacking f, records whose
\* f has another value and expired records are excluded.
C13_FilterExactness ==
    \A f \in FieldsNow, v \in Values :
        LET listed == getRecordsByFieldValue(records, ttlMap, now, f, v)
        IN /\ Range(listed) =
                {r \in DOMAIN records :
                    /\ ~(r \in DOMAIN ttlMap /\ ttlMap[r] <= now)
                    /\ f \in DOMAIN records[r]
                    /\ records[r][f] = v}
           /\ Len(listed) = Cardinality(Range(listed))

\* One record has f = "x" and is listed; the other has g = "x", lacks f and is
\* not expired.
C13_Witness ==
    \E r, q \in DOMAIN records :
        /\ r # q
        /\ getRecordsByFieldValue(records, ttlMap, now, <<"f">>, <<"x">>) = <<r>>
        /\ DOMAIN records[q] = {<<"g">>}
        /\ records[q][<<"g">>] = <<"x">>
        /\ ~isRecordExpired(ttlMap, now, q)

\* The ids whose expiration instant is at or before the current time.
ExpiredNow == {r \in DOMAIN ttlMap : ttlMap[r] <= now}

\* C14. expireRecords() removes the record entry and the TTL entry of every id
\* whose expiration instant is at or before the current time, keeps the others,
\* and returns the number of records that call removed from the record table.
C14_ExpireRecordsCount ==
    [][lastOp'.op = "expireRecords"
       => /\ records' = [r \in DOMAIN records \ ExpiredNow |-> records[r]]
          /\ ttlMap' = [r \in DOMAIN ttlMap \ ExpiredNow |-> ttlMap[r]]
          /\ lastOp'.ret = Cardinality(DOMAIN records \ DOMAIN records')]_vars

\* C15. backup() holds no trace of a record that is logically expired at the
\* call, purged or not: no line of the text is its id, the record count is the
\* number of non-expired records, the TTL count is the number of TTL entries
\* written, none of them for an expired record, and after restore of that text
\* the record is absent from both tables.
C15_BackupOmitsExpired ==
    lastOp.op = "backup" =>
        LET lines == getlines(lastOp.ret)
            live == {r \in DOMAIN records : ~(r \in DOMAIN ttlMap /\ ttlMap[r] <= now)}
            o == restore(lastOp.ret, now)
            n == Cardinality(DOMAIN o.ttlMap)
        IN /\ lines[1] = IntToStr(Cardinality(live))
           /\ o.ret = TRUE
           /\ DOMAIN o.records = live
           /\ DOMAIN o.ttlMap \subseteq live
           /\ lines[Len(lines) - 2 * n] = IntToStr(n)
           /\ \A r \in ExpiredNow :
                 /\ \A k \in 1..Len(lines) : lines[k] # r
                 /\ hasRecord(o.records, o.ttlMap, now, r) = FALSE

\* backup() has just been called with one record expired and not purged and
\* another holding a TTL with a whole second left.
C15_Witness ==
    /\ lastOp.op = "backup"
    /\ \E r \in DOMAIN records : r \in ExpiredNow
    /\ \E q \in DOMAIN records :
          q \in DOMAIN ttlMap /\ ttlMap[q] - now >= TicksPerSecond

\* C16. TTLs survive a backup/restore cycle: after restore(backup()), every
\* record that was not expired and had a TTL entry when backup() was called has
\* a TTL entry again, also when less than one whole second of its TTL was left.
C16_TTLSurvivesRoundTrip ==
    [][(lastOp'.op = "restore" /\ lastOp'.pre.src = "backup")
       => \A r \in DOMAIN records :
             (r \in DOMAIN ttlMap /\ ~isRecordExpired(ttlMap, held.at, r))
             => (lastOp'.ret = TRUE /\ r \in DOMAIN records' /\ r \in DOMAIN ttlMap')]_vars

\* The whole seconds a TTL entry of instant e has left at instant t.
SecondsLeft(e, t) == TruncDiv(e - t, TicksPerSecond)

\* C17. restore re-anchors TTLs to the restore time: after a successful restore,
\* a record listed in the snapshot's TTL section with n remaining seconds has
\* expiration instant (instant of the restore + n seconds), whatever time passed
\* since the backup; reads see it before that instant and not from it on. The
\* snapshots are the one backup() returned, whose TTL section lists the
\* non-expired records with n > 0 whole seconds left at the backup, and the text
\* of record b with a TTL of 1 second.
C17_RestoreReanchorsTTL ==
    [][(lastOp'.op = "restore" /\ lastOp'.ret = TRUE)
       => LET anchored(r, n) ==
                  /\ r \in DOMAIN records'
                  /\ r \in DOMAIN ttlMap'
                  /\ ttlMap'[r] = now' + n * TicksPerSecond
                  /\ \A t \in now'..(now' + (n + 1) * TicksPerSecond) :
                        hasRecord(records', ttlMap', t, r)
                           = (t < now' + n * TicksPerSecond)
          IN /\ lastOp'.pre.src = "backup"
                => \A r \in DOMAIN records :
                      (/\ r \in DOMAIN ttlMap
                       /\ SecondsLeft(ttlMap[r], held.at) > 0)
                      => anchored(r, SecondsLeft(ttlMap[r], held.at))
             /\ lastOp'.args = <<OneRecordText>> => anchored(<<"b">>, 1)]_vars

\* A snapshot listing a TTL was restored after the clock had advanced since the
\* backup, and the record's TTL counts from the restore.
C17_Witness ==
    /\ lastOp.op = "restore"
    /\ lastOp.ret = TRUE
    /\ lastOp.pre.src = "backup"
    /\ lastOp.pre.takenAt < now
    /\ \E r \in DOMAIN records :
          r \in DOMAIN ttlMap /\ ttlMap[r] = now + TicksPerSecond

\* C18. A successful restore replaces the whole store: afterwards the tables
\* hold exactly the records, fields and TTL entries the snapshot encodes, and
\* nothing that was in the store before and is not in the snapshot. For the
\* text backup() returned, these are the records that were not expired at the
\* backup, with their fields, and the TTLs with a whole second left; the sample
\* texts encode no record and a TTL for a, no record at all, and record b with
\* field g = x and a TTL.
C18_RestoreReplacesAll ==
    [][(lastOp'.op = "restore" /\ lastOp'.ret = TRUE)
       => /\ lastOp'.pre.src = "backup"
             => LET live == {r \in DOMAIN records : ~isRecordExpired(ttlMap, held.at, r)}
                IN /\ records' = [r \in live |-> records[r]]
                   /\ DOMAIN ttlMap' =
                         {r \in live : r \in DOMAIN ttlMap
                                        /\ SecondsLeft(ttlMap[r], held.at) > 0}
          /\ lastOp'.args = <<OneRecordText>>
             => /\ records' = (<<"b">> :> (<<"g">> :> <<"x">>))
                /\ DOMAIN ttlMap' = {<<"b">>}
          /\ lastOp'.args = <<ZeroFieldsText>>
             => (records' = EmptyMap /\ ttlMap' = EmptyMap)
          /\ lastOp'.args = <<OrphanTTLText>>
             => (records' = EmptyMap /\ DOMAIN ttlMap' = {<<"a">>})]_vars

\* A text encoding record b alone has just been restored over a store that held
\* record a.
C18_Witness ==
    /\ lastOp.op = "restore"
    /\ lastOp.ret = TRUE
    /\ lastOp.args = <<OneRecordText>>
    /\ lastOp.pre.src = "sample"
    /\ lastOp.pre.had = {<<"a">>}
    /\ DOMAIN records = {<<"b">>}

\* The read operations.
ReadOps == {"get", "hasRecord", "getFields", "getAllRecordIds",
            "getRecordsByFieldValue", "backup"}

\* C19. Read operations are side-effect-free: get, hasRecord, getFields,
\* getAllRecordIds, getRecordsByFieldValue and backup leave the record table and
\* the TTL table unchanged; they do not purge a logically expired record.
C19_ReadsChangeNothing ==
    [][lastOp'.op \in ReadOps => (records' = records /\ ttlMap' = ttlMap)]_vars

\* get has just been called on a record that is expired and not purged, and
\* the record is still in both tables.
C19_Witness ==
    /\ lastOp.op = "get"
    /\ lastOp.ret = Absent
    /\ lastOp.pre.present
    /\ lastOp.pre.expired
    /\ lastOp.args[1] \in DOMAIN records
    /\ lastOp.args[1] \in DOMAIN ttlMap
    /\ lastOp.args[2] \in DOMAIN records[lastOp.args[1]]

\* C20. setTTL(r, n) with n zero or negative on an existing non-expired record
\* makes r logically expired at once: with no clock advance, hasRecord(r) is
\* false, get(r, f) is absent for every f and getAllRecordIds does not list r.
C20_SetTTLNonPositive ==
    [][\A r \in RecordIds, n \in TtlSeconds :
          (/\ lastOp'.op = "setTTL"
           /\ lastOp'.args = <<r, n>>
           /\ n <= 0
           /\ hasRecord(records, ttlMap, now, r))
          => /\ now' = now
             /\ r \in DOMAIN records'
             /\ hasRecord(records', ttlMap', now', r) = FALSE
             /\ \A f \in FieldsNow : get(records', ttlMap', now', r, f) = Absent
             /\ ~InSeq(r, getAllRecordIds(records', ttlMap', now'))]_vars

\* setTTL(r, 0) has just been called on a record that was not expired: its
\* expiration instant is the current time and the record is still stored.
C20_Witness ==
    /\ lastOp.op = "setTTL"
    /\ lastOp.args[2] = 0
    /\ lastOp.pre.present
    /\ ~lastOp.pre.expired
    /\ lastOp.args[1] \in DOMAIN records
    /\ ttlMap[lastOp.args[1]] = now

\* C21. TTL is not cumulative: setTTL(r, n) on a non-expired record that has a
\* TTL overwrites the expiration instant with (instant of this call + n
\* seconds), a later or an earlier one; the earlier instant has no further
\* effect on reads, and no other entry of either table changes.
C21_SetTTLOverwrites ==
    [][\A r \in RecordIds, n \in TtlSeconds :
          (/\ lastOp'.op = "setTTL"
           /\ lastOp'.args = <<r, n>>
           /\ r \in DOMAIN records
           /\ r \in DOMAIN ttlMap
           /\ ~isRecordExpired(ttlMap, now, r))
          => /\ records' = records
             /\ DOMAIN ttlMap' = DOMAIN ttlMap
             /\ ttlMap'[r] = now + n * TicksPerSecond
             /\ \A q \in DOMAIN ttlMap \ {r} : ttlMap'[q] = ttlMap[q]
             /\ \A t \in now..(MaxTime + (MaxTTL + 1) * TicksPerSecond) :
                   hasRecord(records', ttlMap', t, r) = (t < now + n * TicksPerSecond)]_vars

\* setTTL(r, 1) has just been called, after the clock advanced, on a record
\* whose earlier TTL had not passed: the record expires one second from now.
C21_Witness ==
    /\ lastOp.op = "setTTL"
    /\ lastOp.args[2] = 1
    /\ lastOp.pre.present
    /\ lastOp.pre.hasTTL
    /\ ~lastOp.pre.expired
    /\ now >= 1
    /\ ttlMap[lastOp.args[1]] = now + TicksPerSecond

\* C22. set(r, f, v) inserts or overwrites field f of r, creating r if absent:
\* right afterwards get(r, f) returns v as present, the empty string included,
\* hasRecord(r) is true, and when r was a non-expired record its other fields
\* keep their values.
C22_SetThenGet ==
    [][\A r \in RecordIds, f \in Fields, v \in Values :
          (lastOp'.op = "set" /\ lastOp'.args = <<r, f, v>>)
          => /\ get(records', ttlMap', now', r, f) = Present(v)
             /\ get(records', ttlMap', now', r, f) # Absent
             /\ hasRecord(records', ttlMap', now', r) = TRUE
             /\ hasRecord(records, ttlMap, now, r)
                => /\ DOMAIN records'[r] = DOMAIN records[r] \cup {f}
                   /\ \A g \in DOMAIN records[r] \ {f} :
                         get(records', ttlMap', now', r, g) = Present(records[r][g])]_vars

\* set has just written the empty string to field f of a non-expired record
\* that holds another field.
C22_Witness ==
    /\ lastOp.op = "set"
    /\ lastOp.args[2] = <<"f">>
    /\ lastOp.args[3] = <<>>
    /\ lastOp.pre.present
    /\ ~lastOp.pre.expired
    /\ DOMAIN records[lastOp.args[1]] = {<<"f">>, <<"g">>}

\* C23. A record with no TTL entry never expires, and a record whose expiration
\* instant is still in the future is not expired: a clock advance or an
\* expireRecords() call after which the record has no TTL entry or one later
\* than the current time leaves its record entry, its fields and its TTL entry
\* unchanged, and hasRecord, get, getFields and getAllRecordIds still show it.
C23_LiveRecordStays ==
    [][lastOp'.op \in {"tick", "expireRecords"}
       => \A r \in DOMAIN records :
             (r \notin DOMAIN ttlMap \/ ttlMap[r] > now')
             => /\ r \in DOMAIN records'
                /\ records'[r] = records[r]
                /\ (r \in DOMAIN ttlMap') = (r \in DOMAIN ttlMap)
                /\ r \in DOMAIN ttlMap => ttlMap'[r] = ttlMap[r]
                /\ hasRecord(records', ttlMap', now', r) = TRUE
                /\ getFields(records', ttlMap', now', r) = SortStrs(DOMAIN records[r])
                /\ \A f \in DOMAIN records[r] :
                      get(records', ttlMap', now', r, f) = Present(records[r][f])
                /\ InSeq(r, getAllRecordIds(records', ttlMap', now'))]_vars

\* expireRecords() has just purged one id after the clock advanced, and a
\* record whose TTL is still in the future is left.
C23_Witness ==
    /\ lastOp.op = "expireRecords"
    /\ lastOp.ret = 1
    /\ now >= 1
    /\ \E r \in DOMAIN records : r \in DOMAIN ttlMap /\ ttlMap[r] > now

\* C24. Only expireRecords cleans up in bulk: a call of set, deleteField,
\* deleteRecord or setTTL with record id r changes at most the record entry and
\* the TTL entry of r; the entries of every other id, expired or not, are
\* unchanged.
C24_SingleRecordEffect ==
    [][lastOp'.op \in {"set", "deleteField", "deleteRecord", "setTTL"}
       => \A q \in (IdsNow \cup DOMAIN records' \cup DOMAIN ttlMap') \ {lastOp'.args[1]} :
             /\ (q \in DOMAIN records') = (q \in DOMAIN records)
             /\ q \in DOMAIN records => records'[q] = records[q]
             /\ (q \in DOMAIN ttlMap') = (q \in DOMAIN ttlMap)
             /\ q \in DOMAIN ttlMap => ttlMap'[q] = ttlMap[q]]_vars

\* deleteField has just purged an expired record while another record, expired
\* too, is still in both tables.
C24_Witness ==
    /\ lastOp.op = "deleteField"
    /\ lastOp.pre.present
    /\ lastOp.pre.expired
    /\ lastOp.args[1] \notin DOMAIN records
    /\ \E q \in DOMAIN records : q \in DOMAIN ttlMap /\ ttlMap[q] <= now

\* Sequence s is in strictly ascending lexicographic order, so without duplicates.
Ascending(s) == \A i, j \in 1..Len(s) : i < j => StrLess(s[i], s[j])

\* C25. getFields(r), getAllRecordIds() and getRecordsByFieldValue(f, v) return
\* their results in ascending lexicographic order without duplicates, whatever
\* the order of insertion; getFields(r) lists exactly the field names of r when
\* r is a non-expired record and is empty when r is expired or absent.
C25_SortedResults ==
    /\ Ascending(getAllRecordIds(records, ttlMap, now))
    /\ \A f \in FieldsNow, v \in Values :
          Ascending(getRecordsByFieldValue(records, ttlMap, now, f, v))
    /\ \A r \in IdsNow :
          LET fs == getFields(records, ttlMap, now, r)
          IN /\ Ascending(fs)
             /\ Range(fs) = IF r \in DOMAIN records
                                /\ ~(r \in DOMAIN ttlMap /\ ttlMap[r] <= now)
                             THEN DOMAIN records[r]
                             ELSE {}

\* Record a has just been created after record b, whose field f was written
\* after its field g or before: the ids are listed a, b and the fields f, g.
C25_Witness ==
    /\ lastOp.op = "set"
    /\ lastOp.args[1] = <<"a">>
    /\ ~lastOp.pre.present
    /\ getAllRecordIds(records, ttlMap, now) = << <<"a">>, <<"b">> >>
    /\ getFields(records, ttlMap, now, <<"b">>) = << <<"f">>, <<"g">> >>
    /\ getRecordsByFieldValue(records, ttlMap, now, <<"g">>, <<"x">>)
          = << <<"a">>, <<"b">> >>

C27_DeleteOneOfManyFields ==
    [][\A r \in RecordIds, f \in Fields :
          (/\ lastOp'.op = "deleteField"
           /\ lastOp'.args = <<r, f>>
           /\ ~isRecordExpired(ttlMap, now, r)
           /\ r \in DOMAIN records
           /\ f \in DOMAIN records[r]
           /\ DOMAIN records[r] # {f})
          => /\ lastOp'.ret = TRUE
             /\ DOMAIN records' = DOMAIN records
             /\ DOMAIN records'[r] = DOMAIN records[r] \ {f}
             /\ \A g \in DOMAIN records[r] \ {f} : records'[r][g] = records[r][g]
             /\ \A q \in DOMAIN records \ {r} : records'[q] = records[q]
             /\ ttlMap' = ttlMap
             /\ get(records', ttlMap', now', r, f) = Absent
             /\ hasRecord(records', ttlMap', now', r) = TRUE]_vars

\* deleteField has just removed one of the two fields of a non-expired record
\* that has a TTL entry, and the record and its TTL entry are still there.
C27_Witness ==
    /\ lastOp.op = "deleteField"
    /\ lastOp.ret = TRUE
    /\ lastOp.pre.hasTTL
    /\ ~lastOp.pre.expired
    /\ lastOp.args[1] \in DOMAIN records
    /\ lastOp.args[1] \in DOMAIN ttlMap
    /\ Cardinality(DOMAIN records) = 2

\* C28. Once a record id is logically absent (hasRecord(r) is false), it stays
\* absent under a clock advance and under every call other than set(r, ...) and
\* a successful restore.
C28_AbsentStaysAbsent ==
    [][\A r \in RecordIds :
          (/\ ~hasRecord(records, ttlMap, now, r)
           /\ ~(lastOp'.op = "set" /\ lastOp'.args[1] = r)
           /\ ~(lastOp'.op = "restore" /\ lastOp'.ret = TRUE))
          => ~hasRecord(records', ttlMap', now', r)]_vars

\* C29. A record id that is destroyed and then re-created inherits no TTL:
\* after deleteRecord(r), deleteField of the last field of r, or expireRecords()
\* purging r, the id has no entry in either table, and a following set(r, f, v)
\* yields a record with no TTL entry, which no clock advance expires.
C29_NoStaleTTL ==
    [][\A r \in RecordIds :
          /\ Destroyed(r)' => (r \notin DOMAIN records' /\ r \notin DOMAIN ttlMap')
          /\ (Destroyed(r) /\ lastOp'.op = "set" /\ lastOp'.args[1] = r)
             => /\ r \in DOMAIN records'
                /\ r \notin DOMAIN ttlMap'
                /\ \A t \in now..(MaxTime + 1) :
                      hasRecord(records', ttlMap', t, r) = TRUE]_vars

\* set has just re-created, after the clock advanced, a record that the call
\* before had destroyed, and the record has no TTL entry.
C29_Witness ==
    /\ lastOp.op = "set"
    /\ lastOp.pre.destroyed
    /\ now >= 1
    /\ lastOp.args[1] \in DOMAIN records
    /\ lastOp.args[1] \notin DOMAIN ttlMap
    /\ DOMAIN ttlMap # {}

\* C30. Writing to a record does not refresh its TTL: set(r, f, v) on a
\* non-expired record that has a TTL entry leaves the expiration instant of r
\* unchanged, so r expires at the instant the last setTTL fixed.
C30_SetKeepsTTL ==
    [][\A r \in RecordIds :
          (/\ lastOp'.op = "set"
           /\ lastOp'.args[1] = r
           /\ r \in DOMAIN records
           /\ r \in DOMAIN ttlMap
           /\ ~isRecordExpired(ttlMap, now, r))
          => /\ ttlMap' = ttlMap
             /\ \A t \in now..(MaxTime + (MaxTTL + 1) * TicksPerSecond) :
                   hasRecord(records', ttlMap', t, r) = (t < ttlMap[r])]_vars

\* set has just written, after the clock advanced, to a non-expired record
\* whose TTL entry is one tick ahead.
C30_Witness ==
    /\ lastOp.op = "set"
    /\ lastOp.pre.present
    /\ lastOp.pre.hasTTL
    /\ ~lastOp.pre.expired
    /\ now >= 1
    /\ lastOp.args[1] \in DOMAIN ttlMap
    /\ ttlMap[lastOp.args[1]] = now + 1
====
